---------------------------- MODULE Spec2Model ----------------------------
(***************************************************************************)
(* A model of k8s-status-badge (src/main.go): the three route handlers     *)
(* (healthz, handlePods, handleNodes) behind the Logger and Recover        *)
(* middleware, and the process lifecycle of main (listen task, interrupt,  *)
(* Shutdown bounded by a 10 second drain window).                          *)
(*                                                                         *)
(* Three specifications share the state and the handler operators:         *)
(*   Spec          a running server answering requests while pods are      *)
(*                 created in the cluster and the API server fails and     *)
(*                 recovers;                                               *)
(*   SpecNodes     the same server while nodes register;                   *)
(*   SpecLifecycle the whole of main from boot to exit, with requests that *)
(*                 take time (the cluster query is the only point a        *)
(*                 handler blocks) and a clock counting seconds.           *)
(***************************************************************************)
EXTENDS Integers, Sequences, FiniteSets, TLC

VARIABLES
    mainPc,       \* position of main: "boot", "setup", "wait", "armed", "shutdown", "done"
    listenPc,     \* position of the goroutine of line 71: "none", "start", "serving", "failed", "closed"
    bound,        \* the listener is bound (net.Listen succeeded in e.Start)
    signalled,    \* os.Interrupt was delivered: ctx.Done() of line 68 is closed
    inShutdown,   \* http.Server.inShutdown: set by e.Shutdown, listeners closed
    exit,         \* how the process ended: "none", "ok", "fatal", "panic"
    drainLeft,    \* seconds left on the context of line 78
    inflight,     \* requests accepted and not yet answered, in order of acceptance
    cluster,      \* what the API server holds: its failure (if any), the pods, the nodes
    last,         \* the last exchange (request, response) since the cluster last changed
    failedBefore  \* some exchange other than last was not answered with a 200

vars == <<mainPc, listenPc, bound, signalled, inShutdown, exit, drainLeft,
          inflight, cluster, last, failedBefore>>

---------------------------------------------------------------------------
(* Bounds of the model.                                                    *)

\* most pods in the cluster
MaxPods == 5
\* most nodes in the cluster
MaxNodes == 2
\* most conditions a node reports
MaxConds == 2
\* most requests in flight at once in SpecLifecycle
MaxInflight == 2
\* seconds a cluster query may take beyond the drain window in SpecLifecycle
MaxOverrun == 1

---------------------------------------------------------------------------
(* Program constants.                                                      *)

BADGE_COLOR_FATAL == "red"
BADGE_COLOR_WARN == "yellow"
BADGE_COLOR_HEALTHY == "blue"

\* http.StatusOK and http.StatusInternalServerError as the handlers pass them
StatusOK == 200
StatusInternalServerError == 500

\* 10*time.Second of context.WithTimeout, in seconds
DrainTimeout == 10

\* conf.Env, read once at startup
Env == "staging"

\* the float64 literals 0.5 and 0.8 of handlePods, as fractions
RateFatalBelow == <<1, 2>>
RateWarnBelow == <<4, 5>>

---------------------------------------------------------------------------
(* Values exchanged with the cluster and with the client.                  *)

\* v1.PodPhase
PodPhases == {"Pending", "Running", "Succeeded", "Failed", "Unknown"}
\* v1.ConditionStatus
ConditionStatuses == {"True", "False", "Unknown"}
\* err.Error() of a failed List call
QueryErrors == {"connection refused", "context deadline exceeded"}

SeqsUpTo(S, n) == UNION {[1..k -> S] : k \in 0..n}

\* the routes registered on the echo instance
GetHealthz == [method |-> "GET", path |-> "/healthz"]
HeadHealthz == [method |-> "HEAD", path |-> "/healthz"]
GetPods == [method |-> "GET", path |-> "/pods"]
GetNodes == [method |-> "GET", path |-> "/nodes"]
Routes == {GetHealthz, HeadHealthz, GetPods, GetNodes}

\* what a List call returns: (list, err). err = "" stands for nil.
PodReply(items) == [err |-> "", pods |-> items, nodes |-> <<>>]
NodeReply(items) == [err |-> "", pods |-> <<>>, nodes |-> items]
ErrReply(msg) == [err |-> msg, pods |-> <<>>, nodes |-> <<>>]
NoReply == [err |-> "", pods |-> <<>>, nodes |-> <<>>]

NoDoc == [schemaVersion |-> 0, label |-> "", message |-> "", color |-> ""]
\* a response: status line, a JSON string or error body, a JSON badge document
Response(status, text, doc) == [status |-> status, text |-> text, doc |-> doc]
\* the connection was closed without a response (net/http after a panic
\* that no middleware recovered)
Aborted == Response(0, "", NoDoc)

---------------------------------------------------------------------------
(* Formatting.                                                             *)

Digit(d) ==
    CASE d = 0 -> "0" [] d = 1 -> "1" [] d = 2 -> "2" [] d = 3 -> "3"
      [] d = 4 -> "4" [] d = 5 -> "5" [] d = 6 -> "6" [] d = 7 -> "7"
      [] d = 8 -> "8" [] d = 9 -> "9"

RECURSIVE Itoa(_)
\* the verb %d of fmt.Sprintf on a non-negative int
Itoa(n) == IF n < 10 THEN Digit(n) ELSE Itoa(n \div 10) \o Digit(n % 10)

\* fmt.Sprintf("%d/%d", healthy, total)
Message(h, t) == Itoa(h) \o "/" \o Itoa(t)

\* fmt.Sprintf("pods(%s)", conf.Env), fmt.Sprintf("nodes(%s)", conf.Env)
Label(resource) == resource \o "(" \o Env \o ")"

\* ctx.JSON(code, s) on a Go string without characters that need escaping:
\* the string in quotes, followed by the encoder's newline
JSONString(s) == "\"" \o s \o "\"\n"

\* ctx.JSON(code, echo.Map{...}) of the badge
Badge(label, message, color) ==
    [schemaVersion |-> 1, label |-> label, message |-> message, color |-> color]

---------------------------------------------------------------------------
(* float64 arithmetic of handlePods.                                       *)

\* float64(h) / float64(t): 0/0 is NaN, no fault is raised. For counts
\* below 2^50 the rounded quotient compares with 0.5 and with the literal
\* 0.8 exactly as the fraction h/t compares with 1/2 and 4/5, so the
\* quotient is kept as the fraction.
FloatDiv(h, t) == [nan |-> (t = 0 /\ h = 0), num |-> h, den |-> t]

\* variant: a comparison that NaN satisfies
FloatLessTotal(x, c) == x.nan \/ x.num * c[2] < c[1] * x.den
\* x < c on float64: every comparison with NaN is false
FloatLess(x, c) == ~x.nan /\ x.num * c[2] < c[1] * x.den

---------------------------------------------------------------------------
(* The handlers. A handler's outcome is either a response or a panic that  *)
(* unwinds into the middleware; queried tells whether it called the        *)
(* cluster.                                                                *)

Returned(queried, resp) == [panic |-> FALSE, queried |-> queried, resp |-> resp]
Panicked(queried) == [panic |-> TRUE, queried |-> queried, resp |-> Aborted]

\* variant: a readiness probe that asks the cluster
healthzReadiness ==
    IF cluster.err # ""
    THEN Returned(TRUE, Response(StatusInternalServerError, JSONString(cluster.err), NoDoc))
    ELSE Returned(TRUE, Response(StatusOK, JSONString("ok"), NoDoc))
\* func healthz
healthz == Returned(FALSE, Response(StatusOK, JSONString("ok"), NoDoc))

\* variant: only "Running" counts
IsHealthyPodRunningOnly(phase) == phase = "Running"
\* the condition of the loop of handlePods
IsHealthyPod(phase) == phase = "Running" \/ phase = "Succeeded"

RECURSIVE CountHealthyPods(_, _)
\* the loop of handlePods over pods.Items, healthyPodsCount as accumulator
CountHealthyPods(items, healthyPodsCount) ==
    IF items = <<>> THEN healthyPodsCount
    ELSE CountHealthyPods(Tail(items),
            IF IsHealthyPod(Head(items)) THEN healthyPodsCount + 1
            ELSE healthyPodsCount)

\* variant: the boundaries 0.5 and 0.8 fall in the lower band
PodColorStrictBands(rate) ==
    IF FloatLess(rate, RateFatalBelow) \/ rate.num * 2 = rate.den THEN BADGE_COLOR_FATAL
    ELSE IF FloatLess(rate, RateWarnBelow) \/ rate.num * 5 = rate.den * 4 THEN BADGE_COLOR_WARN
    ELSE BADGE_COLOR_HEALTHY
\* the if / else if / else of handlePods on rate
PodColor(rate) ==
    IF FloatLess(rate, RateFatalBelow) THEN BADGE_COLOR_FATAL
    ELSE IF FloatLess(rate, RateWarnBelow) THEN BADGE_COLOR_WARN
    ELSE BADGE_COLOR_HEALTHY

\* variant: a failed query reported as an empty badge
QueryFailedAsBadge(err) ==
    Returned(TRUE, Response(StatusOK, "", Badge(Label("pods"), Message(0, 0), BADGE_COLOR_FATAL)))
\* the err != nil branch of handlePods and of handleNodes
QueryFailed(err) ==
    Returned(TRUE, Response(StatusInternalServerError, JSONString(err), NoDoc))

\* func handlePods, given what Pods("").List returned
handlePods(reply) ==
    IF reply.err # "" THEN QueryFailed(reply.err)
    ELSE LET healthyPodsCount == CountHealthyPods(reply.pods, 0)
             total == Len(reply.pods)
             rate == FloatDiv(healthyPodsCount, total)
         IN  Returned(TRUE, Response(StatusOK, "",
                 Badge(Label("pods"), Message(healthyPodsCount, total), PodColor(rate))))

\* variant: any condition with status "True" counts
NodeIsHealthyAnyCondition(conditions) ==
    \E i \in 1..Len(conditions) : conditions[i] = "True"
\* conditions[len(conditions)-1].Status == "True", on a non-empty list
NodeIsHealthy(conditions) == conditions[Len(conditions)] = "True"

RECURSIVE CountHealthyNodes(_, _)
\* the loop of handleNodes over nodes.Items: indexing the last condition
\* of a node without conditions panics (index out of range [-1])
CountHealthyNodes(items, healthyNodesCount) ==
    IF items = <<>> THEN [panic |-> FALSE, count |-> healthyNodesCount]
    ELSE LET conditions == Head(items)
         IN  IF Len(conditions) = 0
             THEN [panic |-> TRUE, count |-> healthyNodesCount]
             ELSE CountHealthyNodes(Tail(items),
                     IF NodeIsHealthy(conditions) THEN healthyNodesCount + 1
                     ELSE healthyNodesCount)

\* the "color" entry of the badge of handleNodes
NodeColor(healthyNodesCount, total) == "blue"

\* func handleNodes, given what Nodes().List returned
handleNodes(reply) ==
    IF reply.err # "" THEN QueryFailed(reply.err)
    ELSE LET loop == CountHealthyNodes(reply.nodes, 0)
             total == Len(reply.nodes)
         IN  IF loop.panic THEN Panicked(TRUE)
             ELSE Returned(TRUE, Response(StatusOK, "",
                     Badge(Label("nodes"), Message(loop.count, total),
                           NodeColor(loop.count, total))))

\* the routes registered by e.GET and e.HEAD
Route(req, reply) ==
    CASE req.path = "/healthz" -> healthz
      [] req.path = "/pods" -> handlePods(reply)
      [] req.path = "/nodes" -> handleNodes(reply)

\* variant: no recovery middleware
RecoverMissing(out) == out
\* middleware.Recover(): a panic of the handler becomes echo's default
\* error response, 500 {"message":"Internal Server Error"}
Recover(out) ==
    IF out.panic
    THEN Returned(out.queried, Response(StatusInternalServerError,
             "{\"message\":\"Internal Server Error\"}\n", NoDoc))
    ELSE out

\* middleware.Logger(): writes a log line, the outcome passes through
Logger(out) == out

\* the echo instance serving one request: e.Use(Logger), e.Use(Recover)
\* wrap the routed handler; a panic reaching net/http closes the connection
ServeHTTP(req, reply) ==
    LET out == Logger(Recover(Route(req, reply)))
    IN  [queried |-> out.queried,
         resp |-> IF out.panic THEN Aborted ELSE out.resp]

\* the state of the cluster: err = "" when the API server answers
Cluster(err, pods, nodes) == [err |-> err, pods |-> pods, nodes |-> nodes]

\* k8sClient.CoreV1().Pods("").List
ListPods == IF cluster.err # "" THEN ErrReply(cluster.err) ELSE PodReply(cluster.pods)
\* k8sClient.CoreV1().Nodes().List
ListNodes == IF cluster.err # "" THEN ErrReply(cluster.err) ELSE NodeReply(cluster.nodes)

\* the List call the handler of a route makes, if any
List(req) ==
    CASE req.path = "/pods" -> ListPods
      [] req.path = "/nodes" -> ListNodes
      [] OTHER -> NoReply

Exchange(req) ==
    LET served == ServeHTTP(req, List(req))
    IN  [req |-> req, queried |-> served.queried, resp |-> served.resp]

NoRequest == [method |-> "", path |-> ""]
NoExchange == [req |-> NoRequest, queried |-> FALSE, resp |-> Aborted]

---------------------------------------------------------------------------
(* The running server and the cluster around it.                           *)

\* the server takes new requests: Serve is in its accept loop, Shutdown
\* has not closed the listener, the process is alive
Accepting == exit = "none" /\ listenPc = "serving" /\ bound /\ ~inShutdown

Failed(ex) == ex.req # NoRequest /\ ex.resp.status # StatusOK

Answered(ex) ==
    /\ last' = ex
    /\ failedBefore' = (failedBefore \/ Failed(last))

\* one request accepted, handled and answered
Request(req) ==
    /\ Accepting
    /\ Answered(Exchange(req))
    /\ UNCHANGED <<mainPc, listenPc, bound, signalled, inShutdown, exit, drainLeft,
                   inflight, cluster>>

ClusterChanges(c) ==
    /\ cluster' = c
    /\ Answered(NoExchange)
    /\ UNCHANGED <<mainPc, listenPc, bound, signalled, inShutdown, exit, drainLeft, inflight>>

PodCreated(phase) ==
    /\ Len(cluster.pods) < MaxPods
    /\ ClusterChanges([cluster EXCEPT !.pods = Append(@, phase)])

NodeRegistered(conditions) ==
    /\ Len(cluster.nodes) < MaxNodes
    /\ ClusterChanges([cluster EXCEPT !.nodes = Append(@, conditions)])

ClusterFails(msg) ==
    /\ cluster.err = ""
    /\ ClusterChanges([cluster EXCEPT !.err = msg])

ClusterRecovers ==
    /\ cluster.err # ""
    /\ ClusterChanges([cluster EXCEPT !.err = ""])

\* the process after startup: client built, listener bound, main waiting
InitRunning ==
    /\ mainPc = "wait" /\ listenPc = "serving" /\ bound = TRUE
    /\ signalled = FALSE /\ inShutdown = FALSE /\ exit = "none"
    /\ drainLeft = DrainTimeout /\ inflight = <<>>
    /\ cluster = Cluster("", <<>>, <<>>)
    /\ last = NoExchange /\ failedBefore = FALSE

Next ==
    \/ \E req \in Routes : Request(req)
    \/ \E phase \in PodPhases : PodCreated(phase)
    \/ \E msg \in QueryErrors : ClusterFails(msg)
    \/ ClusterRecovers

Spec == InitRunning /\ [][Next]_vars

NextNodes ==
    \/ \E req \in Routes : Request(req)
    \/ \E conditions \in SeqsUpTo(ConditionStatuses, MaxConds) : NodeRegistered(conditions)
    \/ \E msg \in QueryErrors : ClusterFails(msg)
    \/ ClusterRecovers

SpecNodes == InitRunning /\ [][NextNodes]_vars

---------------------------------------------------------------------------
(* The lifecycle of main.                                                  *)

\* a request in flight: remaining is the time its cluster query still takes
InFlight(req, remaining) == [req |-> req, remaining |-> remaining]

\* how long the List call of a request may take; healthz makes none
Durations(req) ==
    IF req.path = "/healthz" THEN {0} ELSE 0..(DrainTimeout + MaxOverrun)

\* the clusters the lifecycle runs against
LifecycleClusters ==
    { Cluster("", <<"Running">>, << <<"True">> >>),
      Cluster("connection refused", <<>>, <<>>) }

RemoveAt(s, i) == SubSeq(s, 1, i - 1) \o SubSeq(s, i + 1, Len(s))

\* godotenv.Load, envconfig.Process, newClient: an error panics
Boot(ok) ==
    /\ exit = "none" /\ mainPc = "boot"
    /\ IF ok THEN mainPc' = "setup" /\ exit' = exit
             ELSE mainPc' = "done" /\ exit' = "panic"
    /\ UNCHANGED <<listenPc, bound, signalled, inShutdown, drainLeft, inflight,
                   cluster, last, failedBefore>>

\* echo.New, the routes, the middleware, signal.NotifyContext, go func
Setup ==
    /\ exit = "none" /\ mainPc = "setup"
    /\ mainPc' = "wait"
    /\ listenPc' = "start"
    /\ UNCHANGED <<bound, signalled, inShutdown, exit, drainLeft, inflight,
                   cluster, last, failedBefore>>

\* os.Interrupt is delivered: before signal.NotifyContext it ends the
\* process, after it it cancels ctx
Interrupt ==
    /\ exit = "none" /\ ~signalled
    /\ IF mainPc \in {"boot", "setup"}
       THEN exit' = "signal" /\ signalled' = signalled
       ELSE exit' = exit /\ signalled' = TRUE
    /\ UNCHANGED <<mainPc, listenPc, bound, inShutdown, drainLeft, inflight,
                   cluster, last, failedBefore>>

\* e.Start: net.Listen on ":" + conf.Port succeeds
Listen ==
    /\ exit = "none" /\ listenPc = "start"
    /\ listenPc' = "bound"
    /\ bound' = TRUE
    /\ UNCHANGED <<mainPc, signalled, inShutdown, exit, drainLeft, inflight,
                   cluster, last, failedBefore>>

\* e.Start: net.Listen fails, Start returns an error that is not ErrServerClosed
ListenFails ==
    /\ exit = "none" /\ listenPc = "start"
    /\ listenPc' = "failed"
    /\ UNCHANGED <<mainPc, bound, signalled, inShutdown, exit, drainLeft, inflight,
                   cluster, last, failedBefore>>

\* e.Logger.Fatal("shutting down the server"): os.Exit(1)
ListenFatal ==
    /\ exit = "none" /\ listenPc = "failed"
    /\ exit' = "fatal"
    /\ UNCHANGED <<mainPc, listenPc, bound, signalled, inShutdown, drainLeft, inflight,
                   cluster, last, failedBefore>>

\* e.Start: http.Server.Serve enters its accept loop, or returns
\* ErrServerClosed (closing the listener) when Shutdown was already called
Serve ==
    /\ exit = "none" /\ listenPc = "bound"
    /\ IF inShutdown THEN listenPc' = "closed" /\ bound' = FALSE
                     ELSE listenPc' = "serving" /\ bound' = bound
    /\ UNCHANGED <<mainPc, signalled, inShutdown, exit, drainLeft, inflight,
                   cluster, last, failedBefore>>

\* Serve returns ErrServerClosed once Shutdown closed the listener; the
\* goroutine ends without a word
ServeReturns ==
    /\ exit = "none" /\ listenPc = "serving" /\ inShutdown
    /\ listenPc' = "closed"
    /\ UNCHANGED <<mainPc, bound, signalled, inShutdown, exit, drainLeft, inflight,
                   cluster, last, failedBefore>>

\* <-ctx.Done(), then context.WithTimeout(context.Background(), 10*time.Second)
AwaitDone ==
    /\ exit = "none" /\ mainPc = "wait" /\ signalled
    /\ mainPc' = "armed"
    /\ drainLeft' = DrainTimeout
    /\ UNCHANGED <<listenPc, bound, signalled, inShutdown, exit, inflight,
                   cluster, last, failedBefore>>

\* variant: main stops waiting but the listener stays open
ShutdownBeginsListenerOpen ==
    /\ exit = "none" /\ mainPc = "armed"
    /\ mainPc' = "shutdown"
    /\ UNCHANGED <<listenPc, bound, signalled, inShutdown, exit, drainLeft, inflight,
                   cluster, last, failedBefore>>
\* e.Shutdown(ctx) is called: inShutdown is set and the listener of a
\* serving server is closed
ShutdownBegins ==
    /\ exit = "none" /\ mainPc = "armed"
    /\ mainPc' = "shutdown"
    /\ inShutdown' = TRUE
    /\ bound' = IF listenPc = "serving" THEN FALSE ELSE bound
    /\ UNCHANGED <<listenPc, signalled, exit, drainLeft, inflight,
                   cluster, last, failedBefore>>

\* the deadline of the context passed to e.Shutdown
DeadlineExpired == drainLeft = 0

\* every connection is idle: e.Shutdown may return nil
\* variant: the server is closed without waiting (e.Close)
QuiescentAlways == TRUE
Quiescent == inflight = <<>>

\* e.Shutdown returns nil, main returns and the process exits
ShutdownReturns ==
    /\ exit = "none" /\ mainPc = "shutdown"
    /\ Quiescent
    /\ mainPc' = "done"
    /\ exit' = "ok"
    /\ UNCHANGED <<listenPc, bound, signalled, inShutdown, drainLeft, inflight,
                   cluster, last, failedBefore>>

\* e.Shutdown returns ctx.Err(): e.Logger.Fatal(err), os.Exit(1)
ShutdownTimesOut ==
    /\ exit = "none" /\ mainPc = "shutdown"
    /\ DeadlineExpired
    /\ mainPc' = "done"
    /\ exit' = "fatal"
    /\ UNCHANGED <<listenPc, bound, signalled, inShutdown, drainLeft, inflight,
                   cluster, last, failedBefore>>

\* the accept loop takes a connection and starts the handler, which blocks
\* in its List call
Accept(req, dur) ==
    /\ Accepting
    /\ Len(inflight) < MaxInflight
    /\ inflight' = Append(inflight, InFlight(req, dur))
    /\ UNCHANGED <<mainPc, listenPc, bound, signalled, inShutdown, exit, drainLeft,
                   cluster, last, failedBefore>>

\* the List call of request i returned: the handler runs to its end and
\* the response is written
Complete(i) ==
    /\ exit = "none"
    /\ inflight[i].remaining = 0
    /\ Answered(Exchange(inflight[i].req))
    /\ inflight' = RemoveAt(inflight, i)
    /\ UNCHANGED <<mainPc, listenPc, bound, signalled, inShutdown, exit, drainLeft, cluster>>

\* one second passes while main is blocked and every request in flight
\* waits for the cluster; during Shutdown the timer of the context runs
Tick ==
    /\ exit = "none"
    /\ mainPc \in {"wait", "shutdown"}
    /\ inflight # <<>>
    /\ \A i \in DOMAIN inflight : inflight[i].remaining > 0
    /\ mainPc = "shutdown" => ~DeadlineExpired
    /\ inflight' = [i \in DOMAIN inflight |->
                       [inflight[i] EXCEPT !.remaining = @ - 1]]
    /\ drainLeft' = IF mainPc = "shutdown" THEN drainLeft - 1 ELSE drainLeft
    /\ UNCHANGED <<mainPc, listenPc, bound, signalled, inShutdown, exit,
                   cluster, last, failedBefore>>

InitBoot ==
    /\ mainPc = "boot" /\ listenPc = "none" /\ bound = FALSE
    /\ signalled = FALSE /\ inShutdown = FALSE /\ exit = "none"
    /\ drainLeft = DrainTimeout /\ inflight = <<>>
    /\ cluster \in LifecycleClusters
    /\ last = NoExchange /\ failedBefore = FALSE

NextLifecycle ==
    \/ \E ok \in BOOLEAN : Boot(ok)
    \/ Setup
    \/ Interrupt
    \/ Listen
    \/ ListenFails
    \/ ListenFatal
    \/ Serve
    \/ ServeReturns
    \/ AwaitDone
    \/ ShutdownBegins
    \/ ShutdownReturns
    \/ ShutdownTimesOut
    \/ \E req \in Routes : \E dur \in Durations(req) : Accept(req, dur)
    \/ \E i \in DOMAIN inflight : Complete(i)
    \/ Tick

SpecLifecycle == InitBoot /\ [][NextLifecycle]_vars

---------------------------------------------------------------------------
(* What the claims speak of, read off the cluster and the last exchange.   *)

\* the last request was req and the cluster answered its List call
Listed(req) == last.req = req /\ cluster.err = ""

\* the pods a reader of the claims counts as healthy
HealthyPods == {i \in DOMAIN cluster.pods : cluster.pods[i] \in {"Running", "Succeeded"}}

\* the nodes whose last condition has status "True"
HealthyNodes ==
    {i \in DOMAIN cluster.nodes :
        /\ cluster.nodes[i] # <<>>
        /\ cluster.nodes[i][Len(cluster.nodes[i])] = "True"}

SomeNodeWithoutConditions == \E i \in DOMAIN cluster.nodes : cluster.nodes[i] = <<>>

\* "h/t" as a reader writes it
Ratio(h, t) == ToString(h) \o "/" \o ToString(t)

\* the three bands on h/t, boundaries in the upper band
Bands(color, h, t) ==
    /\ color = "red" <=> 2 * h < t
    /\ color = "yellow" <=> (2 * h >= t /\ 5 * h < 4 * t)
    /\ color = "blue" <=> 5 * h >= 4 * t

---------------------------------------------------------------------------
(* The claims.                                                             *)

\* C1: for every pod list with t > 0 pods of which h are healthy, GET /pods
\* answers red iff h/t < 0.5, yellow iff 0.5 <= h/t < 0.8, blue iff
\* h/t >= 0.8; the boundaries 0.5 and 0.8 fall in the upper band.
C1_PodBands ==
    (Listed(GetPods) /\ Len(cluster.pods) > 0) =>
        /\ last.resp.status = 200
        /\ Bands(last.resp.doc.color, Cardinality(HealthyPods), Len(cluster.pods))

\* 5 pods of which 4 are healthy: the ratio is 0.8 and the badge is blue
C1_Witness ==
    /\ Listed(GetPods)
    /\ Len(cluster.pods) = 5 /\ Cardinality(HealthyPods) = 4
    /\ last.resp.doc.color = "blue"

\* C2: GET /nodes classifies the healthy/total ratio of the nodes with the
\* same three bands as /pods (red below 0.5, yellow below 0.8, blue from
\* 0.8 on).
C2_NodeBands ==
    (Listed(GetNodes) /\ Len(cluster.nodes) > 0 /\ ~SomeNodeWithoutConditions) =>
        /\ last.resp.status = 200
        /\ Bands(last.resp.doc.color, Cardinality(HealthyNodes), Len(cluster.nodes))

\* C3: when the query succeeds with an empty list, neither GET /pods nor
\* GET /nodes faults: each answers 200 with message "0/0" and one and the
\* same color (the healthy one) on every such request.
C3_EmptyList ==
    /\ (Listed(GetPods) /\ cluster.pods = <<>>) =>
          /\ last.resp.status = 200
          /\ last.resp.doc.message = "0/0"
          /\ last.resp.doc.color = "blue"
    /\ (Listed(GetNodes) /\ cluster.nodes = <<>>) =>
          /\ last.resp.status = 200
          /\ last.resp.doc.message = "0/0"
          /\ last.resp.doc.color = "blue"

\* GET /pods answered on a cluster without pods
C3_Witness ==
    /\ Listed(GetPods) /\ cluster.pods = <<>>
    /\ last.resp.doc.message = "0/0"

\* C4: when the List call fails, GET /pods and GET /nodes answer 500 with
\* a non-empty body that is the error message (as a JSON string) and no
\* badge document, and the process keeps serving: it still accepts
\* requests, and a later GET or HEAD /healthz is answered with 200.
C4_QueryFailure ==
    /\ (last.req \in {GetPods, GetNodes} /\ cluster.err # "") =>
          /\ last.resp.status = 500
          /\ last.resp.text = "\"" \o cluster.err \o "\"\n"
          /\ last.resp.text # ""
          /\ last.resp.doc = NoDoc
          /\ Accepting
    /\ (failedBefore /\ last.req \in {GetHealthz, HeadHealthz}) =>
          last.resp.status = 200

\* a failed GET /nodes answered after an earlier request had failed too
C4_Witness ==
    /\ last.req = GetNodes /\ cluster.err # ""
    /\ last.resp.status = 500
    /\ failedBefore

\* C7: the panic of GET /nodes on a node without conditions becomes a 500
\* response for that request, and the process goes on serving.
C7_PanicRecovered ==
    (Listed(GetNodes) /\ SomeNodeWithoutConditions) =>
        /\ last.resp.status = 500
        /\ last.resp.doc = NoDoc
        /\ exit = "none"
        /\ Accepting

\* GET /nodes answered with 500 on a cluster holding a node without
\* conditions, after an earlier such failure
C7_Witness ==
    /\ Listed(GetNodes) /\ SomeNodeWithoutConditions
    /\ last.resp.status = 500
    /\ failedBefore

\* C8: GET /healthz and HEAD /healthz answer 200 with the body "ok"
\* whatever the cluster does, and issue no cluster query.
C8_Healthz ==
    last.req \in {GetHealthz, HeadHealthz} =>
        /\ last.resp.status = 200
        /\ last.resp.text = "\"ok\"\n"
        /\ ~last.queried

\* HEAD /healthz answered 200 while the API server fails
C8_Witness ==
    /\ last.req = HeadHealthz
    /\ cluster.err # ""
    /\ last.resp.status = 200

\* C9: a node counts as healthy for GET /nodes iff the last element of its
\* conditions has status "True"; earlier conditions never change the count.
C9_LastCondition ==
    (Listed(GetNodes) /\ last.resp.status = 200) =>
        last.resp.doc.message = Ratio(Cardinality(HealthyNodes), Len(cluster.nodes))

\* a node whose earlier condition is "True" and whose last is "False" is
\* not counted, one with "False" then "True" is
C9_Witness ==
    /\ Listed(GetNodes)
    /\ cluster.nodes = << <<"True", "False">>, <<"False", "True">> >>
    /\ last.resp.doc.message = "1/2"

\* C10: the message of every badge of GET /pods is "h/t" with t the number
\* of pods returned and h the number of those whose phase is "Running" or
\* "Succeeded", so 0 <= h <= t.
C10_PodMessage ==
    (last.req = GetPods /\ last.resp.status = 200) =>
        /\ cluster.err = ""
        /\ last.resp.doc.message = Ratio(Cardinality(HealthyPods), Len(cluster.pods))
        /\ \E h \in 0..Len(cluster.pods) :
               last.resp.doc.message = Ratio(h, Len(cluster.pods))

\* one pod of each of four phases: the two healthy ones are counted
C10_Witness ==
    /\ Listed(GetPods)
    /\ cluster.pods = <<"Running", "Pending", "Succeeded", "Failed">>
    /\ last.resp.doc.message = "2/4"

\* the lifecycle state of section 4.5, read off the two tasks
Lifecycle ==
    IF exit # "none" THEN "Stopped"
    ELSE IF mainPc = "shutdown" THEN "Draining"
    ELSE IF listenPc = "serving" THEN "Running"
    ELSE "Starting"

Rank(state) ==
    CASE state = "Starting" -> 0
      [] state = "Running" -> 1
      [] state = "Draining" -> 2
      [] state = "Stopped" -> 3

\* a request in flight that ends strictly before the deadline of the drain
\* window (Tick moves both clocks together, so this never changes for a
\* request once Shutdown has begun)
EndsWithinWindow(r) == r.remaining < drainLeft

\* C5: after an interrupt, a request in flight that finishes within the
\* 10 second drain window is answered before the process exits; one that
\* takes longer is abandoned when the window expires: time does not pass
\* beyond the deadline with the process still waiting, and the process
\* never exits with requests in flight before the deadline.
C5_DrainWindow ==
    /\ (inShutdown /\ \E i \in DOMAIN inflight : EndsWithinWindow(inflight[i]))
          => exit = "none"
    /\ (mainPc = "shutdown" /\ exit = "none" /\ drainLeft = 0 /\ inflight # <<>>)
          => (ENABLED ShutdownTimesOut /\ ~ENABLED Tick)
    /\ (inShutdown /\ exit # "none" /\ inflight # <<>>)
          => (exit = "fatal" /\ drainLeft = 0)
    /\ drainLeft \in 0..DrainTimeout

\* the interrupt came with GET /pods in flight for two more seconds: it
\* was answered during the drain and the process then exited normally
C5_Witness ==
    /\ exit = "ok" /\ signalled
    /\ drainLeft = DrainTimeout - 2
    /\ last.req = GetPods /\ last.resp.status = 200
    /\ inflight = <<>>

\* C6: the lifecycle only moves forward through Starting, Running,
\* Draining, Stopped: Running only with the listener bound, Draining only
\* after an interrupt, no request accepted once Draining is entered,
\* nothing happens once Stopped; in every interleaving of the listen task,
\* the signal and main.
C6_Lifecycle ==
    /\ [](Lifecycle = "Running" => bound)
    /\ [](Lifecycle = "Draining" => signalled)
    /\ [][Rank(Lifecycle') >= Rank(Lifecycle)]_vars
    /\ [][(Rank(Lifecycle) >= 2) => (Len(inflight') <= Len(inflight))]_vars
    /\ [][Lifecycle = "Stopped" => UNCHANGED <<inflight, last>>]_vars

\* the interrupt arrived before the listener was bound: main is draining
\* while the listen task has not yet called net.Listen
C6_Witness ==
    /\ Lifecycle = "Draining"
    /\ listenPc = "start" /\ ~bound

===========================================================================
